---- MODULE Spec2Model ----
(***************************************************************************)
(* State-machine model of ChessnutAir (src/ChessnutAir.py): the            *)
(* notification handler that diffs successive board buffers and dispatches *)
(* piece_up / piece_down events, the poll loop board_has_changed with the  *)
(* blink scheduler, the LED frame encoder, the decoder with the notation   *)
(* composer and comparator, the square names, play_animation, callbacks    *)
(* that raise, and the steps of run().                                     *)
(*                                                                         *)
(* Asynchronous execution follows asyncio: one coroutine runs at a time    *)
(* and other coroutines run only while it is suspended at an await.  The   *)
(* transport starts one handler task per notification, in arrival order.   *)
(***************************************************************************)
EXTENDS Integers, Sequences, FiniteSets, TLC

\* ------------------------------------------------------------------ bounds
\* Number of payloads the board sends in one behaviour.
MaxPayloads == 2
\* The clock stops advancing at MaxTime.
MaxTime == 4
\* Number of commands written to the transport in one behaviour.
MaxWrites == 2

\* ------------------------------------------------------- program constants
\* range(32): the number of board bytes the handler walks.
NBytes == 32
\* data[2:34]: the slice bounds of the board bytes inside a payload.
SliceFrom == 2
SliceTo == 34
\* 63-i*2: the square of the first nibble of the stream.
LastSquare == 63

\* ----------------------------------------------------------- pure helpers
\* pair & 0xf
LowNibble(b) == b % 16

\* pair >> 4
HighNibble(b) == b \div 16

\* constants.convertDict: nibble code -> piece symbol (12 pieces and empty).
convertDict ==
    [n \in 0..12 |->
        <<" ", "q", "k", "b", "p", "n", "R", "P", "r", "B", "N", "Q", "K">>[n + 1]]

\* A dict lookup convertDict[n] raises KeyError exactly when n is no key.
HasSymbol(n) == n \in DOMAIN convertDict

\* Python slice s[from:to] of a 0-indexed sequence: it never raises, and it
\* is shorter than to-from when s is.
Slice(s, from, to) ==
    LET hi == IF to < Len(s) THEN to ELSE Len(s)
    IN  IF from >= hi THEN << >> ELSE SubSeq(s, from + 1, hi)

\* s[i] of a 0-indexed Python sequence; IndexError when ~InRange(s, i).
InRange(s, i) == i >= 0 /\ i < Len(s)
At(s, i) == s[i + 1]

\* A Python buffer value: a list or a bytearray of byte values.
PyList(bs) == [typ |-> "list", bytes |-> bs]
PyBytearray(bs) == [typ |-> "bytearray", bytes |-> bs]

\* a != b in Python: a bytearray and a list never compare equal, whatever
\* they hold; two values of one type compare element by element.
PyNe(a, b) == IF a.typ /= b.typ THEN TRUE ELSE a.bytes /= b.bytes

\* The members of a set of numbers in ascending order.
Ascending(P) ==
    [k \in 1..Cardinality(P) |->
        CHOOSE p \in P : Cardinality({ q \in P : q < p }) = k - 1]

\* [0] * 32
Zeros == [k \in 1..NBytes |-> 0]

\* chess.flip_horizontal left out: the bits stay where they are.
flip_horizontal_left_out(squares) == squares

\* LED frame of a SquareSet (square = 8*rank + file, a1 = 0):
\* chess.flip_horizontal mirrors the files of every set bit, and
\* int.to_bytes(8, 'big') puts bits 56..63 into byte 0 down to bits 0..7
\* into byte 7.
flip_horizontal(squares) == { (sq - (sq % 8)) + (7 - (sq % 8)) : sq \in squares }

RECURSIVE BitsValue(_)
BitsValue(bits) ==
    IF bits = {} THEN 0
    ELSE LET b == CHOOSE x \in bits : TRUE
         IN  2 ^ b + BitsValue(bits \ {b})

to_bytes_big(bitset) ==
    [k \in 1..8 |->
        BitsValue({ b - 8 * (8 - k) : b \in { x \in bitset : x \div 8 = 8 - k } })]

\* self._led_command = bytearray([0x0A, 0x08])
led_command == <<10, 8>>

\* The command change_leds writes for a SquareSet argument.
LedCommand(squares) == led_command \o to_bytes_big(flip_horizontal(squares))

\* ------------------------------------------------------------ the handler
NoEvent == [kind |-> "none", square |-> 0, piece |-> " "]

\* send_message testing the old code instead of the new one: a square that
\* held a piece gets piece_up also when another piece replaced it.
send_message_old_first(loc, old, new) ==
    IF old = new THEN [outcome |-> "skip", ev |-> NoEvent]
    ELSE IF old /= 0
         THEN IF HasSymbol(old)
              THEN [outcome |-> "event",
                    ev |-> [kind |-> "up", square |-> loc, piece |-> convertDict[old]]]
              ELSE [outcome |-> "raise", ev |-> NoEvent]
         ELSE IF HasSymbol(new)
              THEN [outcome |-> "event",
                    ev |-> [kind |-> "down", square |-> loc, piece |-> convertDict[new]]]
              ELSE [outcome |-> "raise", ev |-> NoEvent]

\* send_message(loc, old, new): nothing for an unchanged nibble; piece_up
\* with the old piece when the square became empty, piece_down with the new
\* piece otherwise; the convertDict lookup raises KeyError for a code that
\* has no symbol, before any callback is called.
send_message(loc, old, new) ==
    IF old = new THEN [outcome |-> "skip", ev |-> NoEvent]
    ELSE IF new = 0
         THEN IF HasSymbol(old)
              THEN [outcome |-> "event",
                    ev |-> [kind |-> "up", square |-> loc, piece |-> convertDict[old]]]
              ELSE [outcome |-> "raise", ev |-> NoEvent]
         ELSE IF HasSymbol(new)
              THEN [outcome |-> "event",
                    ev |-> [kind |-> "down", square |-> loc, piece |-> convertDict[new]]]
              ELSE [outcome |-> "raise", ev |-> NoEvent]

\* The loop with the two send_message calls of an iteration swapped.
RECURSIVE HandlerScanHighFirst(_, _, _)
HandlerScanHighFirst(od, rdata, p) ==
    LET i == p \div 2
    IN  IF i >= NBytes THEN [outcome |-> "done", pos |-> p, ev |-> NoEvent]
        ELSE IF ~InRange(rdata.bytes, i) \/ ~InRange(od.bytes, i)
        THEN [outcome |-> "raise", pos |-> p, ev |-> NoEvent]
        ELSE IF p % 2 = 0 /\ At(rdata.bytes, i) = At(od.bytes, i)
        THEN HandlerScanHighFirst(od, rdata, p + 2)
        ELSE LET r == IF p % 2 = 1
                      THEN send_message(LastSquare - i * 2,
                                        LowNibble(At(od.bytes, i)),
                                        LowNibble(At(rdata.bytes, i)))
                      ELSE send_message(LastSquare - (i * 2 + 1),
                                        HighNibble(At(od.bytes, i)),
                                        HighNibble(At(rdata.bytes, i)))
             IN  IF r.outcome = "skip" THEN HandlerScanHighFirst(od, rdata, p + 1)
                 ELSE [outcome |-> r.outcome, pos |-> p + 1, ev |-> r.ev]

\* The handler's loop from position p up to its next callback call.  An
\* even p = 2*i is the head of iteration i, an odd p = 2*i+1 is the second
\* send_message of iteration i.  The result is "done" (loop ended), "raise"
\* (IndexError of rdata[i] / od[i], or KeyError of a lookup), or "event"
\* with the event and the position after it.
RECURSIVE HandlerScan(_, _, _)
HandlerScan(od, rdata, p) ==
    LET i == p \div 2
    IN  IF i >= NBytes THEN [outcome |-> "done", pos |-> p, ev |-> NoEvent]
        ELSE IF ~InRange(rdata.bytes, i) \/ ~InRange(od.bytes, i)
        THEN [outcome |-> "raise", pos |-> p, ev |-> NoEvent]
        ELSE IF p % 2 = 0 /\ At(rdata.bytes, i) = At(od.bytes, i)
        THEN HandlerScan(od, rdata, p + 2)
        ELSE LET r == IF p % 2 = 0
                      THEN send_message(LastSquare - i * 2,
                                        LowNibble(At(od.bytes, i)),
                                        LowNibble(At(rdata.bytes, i)))
                      ELSE send_message(LastSquare - (i * 2 + 1),
                                        HighNibble(At(od.bytes, i)),
                                        HighNibble(At(rdata.bytes, i)))
             IN  IF r.outcome = "skip" THEN HandlerScan(od, rdata, p + 1)
                 ELSE [outcome |-> r.outcome, pos |-> p + 1, ev |-> r.ev]

\* ------------------------------------------------------------------ inputs
\* Board buffers of the payloads: byte 0 (squares 63 and 62) is a, byte 31
\* (squares 1 and 0) is z, the other bytes are 0.
Body(a, z) == [k \in 1..NBytes |-> IF k = 1 THEN a ELSE IF k = NBytes THEN z ELSE 0]

\* Byte 0: empty, a white pawn in the low nibble (0x07), black pawns in both
\* nibbles (0x44), a white pawn in the low nibble with a high nibble 13 that
\* has no symbol (0xD7).
FirstByteVals == {0, 7, 68, 215}

\* The empty board, and the boards with a white pawn on square 0 (byte 31 =
\* 0x70) and each value of byte 0.
Bodies == { Body(0, 0) } \cup { Body(a, 112) : a \in FirstByteVals }

\* Transport framing around the board bytes.
Header == <<1, 36>>
Trailer == <<0, 0, 0, 0>>

\* Lengths of the complete payloads: exactly header + board bytes, and with
\* trailing framing.
PayloadLens == {34, 38}

\* A payload cut short inside the board bytes: the header and the one board
\* byte 0x07.
ShortPayloads == { Slice(Header \o b, 0, 3) : b \in { x \in Bodies : x[1] = 7 } }

Payloads ==
    { Slice(Header \o b \o Trailer, 0, n) : b \in Bodies, n \in PayloadLens }
        \cup ShortPayloads

\* Arguments of board_has_changed, in clock units: no timeout (negative and
\* zero) and a timeout of 3; no sleep, a sleep shorter than the timeout that
\* does not divide it, and a sleep longer than the timeout.
Timeouts == {-1, 0, 3}
SleepTimes == {0, 2, 4}

\* ------------------------------------------------------------------- state
VARIABLES
    board_state,    \* self.board_state
    old_data,       \* self._old_data
    board_changed,  \* self._board_changed
    tick,           \* self.tick
    to_blink,       \* self.to_blink
    to_light,       \* self.to_light
    written,        \* the commands written to the transport, latest last
    tasks,          \* the handler tasks, one per notification, in arrival order
    running,        \* the handler task that holds the event loop, 0 if none
    events,         \* the piece_up / piece_down calls made so far, in order
    now,            \* time.time()
    poll,           \* the board_has_changed call in progress
    cur_fen,        \* self.cur_fen
    last_call,      \* the latest call of a query of the class: arguments and result
    session,        \* the position of run() and the transport's subscription
    anim            \* the play_animation call in progress

vars == <<board_state, old_data, board_changed, tick, to_blink, to_light,
          written, tasks, running, events, now, poll, cur_fen, last_call, session,
          anim>>

leds == <<tick, to_blink, to_light, written>>

app == <<cur_fen, last_call, session, anim>>

\* math.inf
Inf == [inf |-> TRUE, t |-> 0]
Finite(t) == [inf |-> FALSE, t |-> t]
\* a >= e for a finite a
GeTime(a, e) == ~e.inf /\ a >= e.t

\* No query has been called yet.
NoCall == [op |-> "none"]

\* run() has not been called; the variable matters to the runs that follow
\* run() step by step.
NoSession == [pc |-> "not_started", subscribed |-> FALSE, connected |-> FALSE]

\* play_animation is not running.
NoAnimation == [pc |-> "idle", frames |-> << >>, sleep_time |-> 0, wake |-> 0]

PollIdle ==
    [pc |-> "idle", timeout |-> 0, sleep_time |-> 0, end_time |-> Inf,
     wake |-> 0, result |-> "none", seen |-> FALSE]

\* ChessnutAir.__init__
Init ==
    /\ board_state = PyList(Zeros)
    /\ old_data = PyList(Zeros)
    /\ board_changed = FALSE
    /\ tick = FALSE
    /\ to_blink = {}
    /\ to_light = {}
    /\ written = << >>
    /\ tasks = << >>
    /\ running = 0
    /\ events = << >>
    /\ now = 0
    /\ poll = PollIdle
    /\ cur_fen = <<" ">>
    /\ last_call = NoCall
    /\ session = NoSession
    /\ anim = NoAnimation

\* ------------------------------------------------- the notification handler
\* _handler without the assignment self._old_data = rdata.
NotifyStaleBaseline(data) ==
    /\ running = 0
    /\ Len(tasks) < MaxPayloads
    /\ LET rdata == PyBytearray(Slice(data, SliceFrom, SliceTo))
           id == Len(tasks) + 1
       IN  IF PyNe(rdata, old_data)
           THEN /\ board_changed' = TRUE
                /\ board_state' = rdata
                /\ old_data' = old_data
                /\ tasks' = Append(tasks, [pc |-> "run", pos |-> 0,
                                           od |-> old_data, rdata |-> rdata])
                /\ running' = id
                /\ poll' = [poll EXCEPT !.seen = (poll.pc /= "idle") \/ @]
           ELSE /\ tasks' = Append(tasks, [pc |-> "done", pos |-> 0,
                                           od |-> old_data, rdata |-> rdata])
                /\ UNCHANGED <<board_changed, board_state, old_data, running, poll>>
    /\ UNCHANGED <<leds, events, now, app>>

\* _handler up to its loop: the transport starts the task for the payload
\* data; the task runs at once up to its first callback.
Notify(data) ==
    /\ running = 0
    /\ Len(tasks) < MaxPayloads
    /\ LET rdata == PyBytearray(Slice(data, SliceFrom, SliceTo))
           id == Len(tasks) + 1
       IN  IF PyNe(rdata, old_data)
           THEN /\ board_changed' = TRUE
                /\ board_state' = rdata
                /\ old_data' = rdata
                /\ tasks' = Append(tasks, [pc |-> "run", pos |-> 0,
                                           od |-> old_data, rdata |-> rdata])
                /\ running' = id
                /\ poll' = [poll EXCEPT !.seen = (poll.pc /= "idle") \/ @]
           ELSE /\ tasks' = Append(tasks, [pc |-> "done", pos |-> 0,
                                           od |-> old_data, rdata |-> rdata])
                /\ UNCHANGED <<board_changed, board_state, old_data, running, poll>>
    /\ UNCHANGED <<leds, events, now, app>>

\* The loop of _handler from where task t stands to its next callback call,
\* to the end of the loop, or to the exception that ends the task.  The
\* callback (piece_up / piece_down of the application) either returns at
\* once, and the task keeps the event loop, or suspends at an await.
HandlerStep(t, suspends) ==
    /\ running = t
    /\ tasks[t].pc = "run"
    /\ LET r == HandlerScan(tasks[t].od, tasks[t].rdata, tasks[t].pos)
       IN  CASE r.outcome = "done" ->
                  /\ tasks' = [tasks EXCEPT ![t].pc = "done", ![t].pos = r.pos]
                  /\ running' = 0
                  /\ events' = events
             [] r.outcome = "raise" ->
                  /\ tasks' = [tasks EXCEPT ![t].pc = "raised", ![t].pos = r.pos]
                  /\ running' = 0
                  /\ events' = events
             [] r.outcome = "event" ->
                  /\ events' = Append(events, [task |-> t, kind |-> r.ev.kind,
                                               square |-> r.ev.square,
                                               piece |-> r.ev.piece])
                  /\ tasks' = [tasks EXCEPT ![t].pos = r.pos,
                                            ![t].pc = IF suspends THEN "suspended" ELSE "run"]
                  /\ running' = IF suspends THEN 0 ELSE t
    /\ UNCHANGED <<board_state, old_data, board_changed, leds, now, poll, app>>

\* The await inside a suspended callback completes and the callback returns.
CallbackResume(t) ==
    /\ running = 0
    /\ tasks[t].pc = "suspended"
    /\ tasks' = [tasks EXCEPT ![t].pc = "run"]
    /\ running' = t
    /\ UNCHANGED <<board_state, old_data, board_changed, leds, events, now, poll, app>>

Next ==
    \/ \E data \in Payloads : Notify(data)
    \/ \E t \in 1..Len(tasks), suspends \in BOOLEAN : HandlerStep(t, suspends)
    \/ \E t \in 1..Len(tasks) : CallbackResume(t)

Spec == Init /\ [][Next]_vars

\* ---------------------------------------------------- callbacks that raise
\* A handler that restores the baseline, the board and the flag when the
\* callback raises.
CallbackRaisesRestoring(t) ==
    /\ running = t
    /\ tasks[t].pc = "run"
    /\ LET r == HandlerScan(tasks[t].od, tasks[t].rdata, tasks[t].pos)
       IN  /\ r.outcome = "event"
           /\ events' = Append(events, [task |-> t, kind |-> r.ev.kind,
                                        square |-> r.ev.square,
                                        piece |-> r.ev.piece])
           /\ tasks' = [tasks EXCEPT ![t].pos = r.pos, ![t].pc = "callback_raised"]
           /\ running' = 0
    /\ old_data' = tasks[t].od
    /\ board_state' = tasks[t].od
    /\ board_changed' = FALSE
    /\ UNCHANGED <<leds, now, poll, app>>

\* The loop of _handler from where task t stands to its next callback call,
\* and the callback raises (as piece_up and piece_down of the class do:
\* NotImplementedError): the exception leaves send_message and _handler,
\* and the task ends.
CallbackRaises(t) ==
    /\ running = t
    /\ tasks[t].pc = "run"
    /\ LET r == HandlerScan(tasks[t].od, tasks[t].rdata, tasks[t].pos)
       IN  /\ r.outcome = "event"
           /\ events' = Append(events, [task |-> t, kind |-> r.ev.kind,
                                        square |-> r.ev.square,
                                        piece |-> r.ev.piece])
           /\ tasks' = [tasks EXCEPT ![t].pos = r.pos, ![t].pc = "callback_raised"]
           /\ running' = 0
    /\ UNCHANGED <<board_state, old_data, board_changed, leds, now, poll, app>>

\* A suspended callback raises when its await completes.
SuspendedCallbackRaises(t) ==
    /\ running = 0
    /\ tasks[t].pc = "suspended"
    /\ tasks' = [tasks EXCEPT ![t].pc = "callback_raised"]
    /\ UNCHANGED <<board_state, old_data, board_changed, leds, running, events,
                   now, poll, app>>

\* The handler with callbacks that return, suspend or raise.
NextFaulty ==
    \/ \E data \in Payloads : Notify(data)
    \/ \E t \in 1..Len(tasks), suspends \in BOOLEAN : HandlerStep(t, suspends)
    \/ \E t \in 1..Len(tasks) : CallbackResume(t)
    \/ \E t \in 1..Len(tasks) : CallbackRaises(t)
    \/ \E t \in 1..Len(tasks) : SuspendedCallbackRaises(t)

SpecFaulty == Init /\ [][NextFaulty]_vars

\* ------------------------------------------------- LEDs and the poll loop
\* The arguments of change_leds: a chess.SquareSet, a list of notation
\* strings (a string is the sequence of its characters), or None.
SquareSet(squares) == [typ |-> "SquareSet", squares |-> squares]
PosList(list_of_pos) == [typ |-> "list", pos |-> list_of_pos]
None == [typ |-> "None"]

conv_letter ==
    ("a" :> 128) @@ ("b" :> 64) @@ ("c" :> 32) @@ ("d" :> 16) @@
    ("e" :> 8) @@ ("f" :> 4) @@ ("g" :> 2) @@ ("h" :> 1)

conv_number ==
    ("1" :> 7) @@ ("2" :> 6) @@ ("3" :> 5) @@ ("4" :> 4) @@
    ("5" :> 3) @@ ("6" :> 2) @@ ("7" :> 1) @@ ("8" :> 0)

\* a | b on two bytes
BitOr(a, b) ==
    BitsValue({ k \in 0..7 : (a \div 2 ^ k) % 2 = 1 \/ (b \div 2 ^ k) % 2 = 1 })

\* for pos in list_of_pos: arr[conv_number[pos[1]]] |= conv_letter[pos[0]]
\* from element k of the list on.
RECURSIVE ListArr(_, _, _)
ListArr(arr, list_of_pos, k) ==
    IF k > Len(list_of_pos) THEN arr
    ELSE LET pos == list_of_pos[k]
             idx == conv_number[pos[2]] + 1
         IN  ListArr([arr EXCEPT ![idx] = BitOr(@, conv_letter[pos[1]])],
                     list_of_pos, k + 1)

\* bytearray([0x00] * 8)
ZeroArr == [k \in 1..8 |-> 0]

\* change_leds(list_of_pos) with None for the list returns before the write.
change_leds_none_writes(list_of_pos) ==
    /\ Len(written) < MaxWrites
    /\ written' = Append(written,
            led_command \o (IF list_of_pos.typ = "SquareSet"
                            THEN to_bytes_big(flip_horizontal(list_of_pos.squares))
                            ELSE IF list_of_pos.typ = "None" THEN ZeroArr
                            ELSE ListArr(ZeroArr, list_of_pos.pos, 1)))

\* change_leds(list_of_pos): nothing for None, else one write of the
\* command prefix followed by the 8 bytes arr.
change_leds(list_of_pos) ==
    IF list_of_pos.typ = "SquareSet"
    THEN /\ Len(written) < MaxWrites
         /\ written' = Append(written,
                led_command \o to_bytes_big(flip_horizontal(list_of_pos.squares)))
    ELSE IF list_of_pos.typ = "None"
    THEN written' = written
    ELSE /\ Len(written) < MaxWrites
         /\ written' = Append(written, led_command \o ListArr(ZeroArr, list_of_pos.pos, 1))

\* blink_tick rendering the union on the ticks that leave the flag off.
blink_tick_swapped ==
    /\ tick' = ~tick
    /\ IF tick' THEN change_leds(SquareSet(to_light))
               ELSE change_leds(SquareSet(to_blink \cup to_light))
    /\ UNCHANGED <<to_blink, to_light>>

\* blink_tick up to the await of the write inside change_leds.
blink_tick ==
    /\ tick' = ~tick
    /\ IF tick' THEN change_leds(SquareSet(to_blink \cup to_light))
               ELSE change_leds(SquareSet(to_light))
    /\ UNCHANGED <<to_blink, to_light>>

\* The sleep_time argument board_has_changed hands to blink_tick.
BlinkSleep(sleep_time, timeout) ==
    IF sleep_time < timeout \/ timeout = 0 THEN sleep_time ELSE timeout

\* One pass of the while loop of board_has_changed, for the call state p and
\* the flag value changed: return True, return False, or enter blink_tick
\* and suspend on its write.
PollLoop(p, changed) ==
    /\ board_changed' = changed
    /\ IF changed
       THEN /\ poll' = [p EXCEPT !.pc = "idle", !.result = "true"]
            /\ UNCHANGED leds
       ELSE IF GeTime(now, p.end_time)
       THEN /\ poll' = [p EXCEPT !.pc = "idle", !.result = "false"]
            /\ UNCHANGED leds
       ELSE /\ poll' = [p EXCEPT !.pc = "writing"]
            /\ blink_tick

\* board_has_changed without the assignment self._board_changed = False.
PollCallKeepFlag(timeout, sleep_time) ==
    /\ running = 0
    /\ poll.pc = "idle"
    /\ PollLoop([pc |-> "loop", timeout |-> timeout, sleep_time |-> sleep_time,
                 end_time |-> IF timeout > 0 THEN Finite(now + timeout) ELSE Inf,
                 wake |-> 0, result |-> "none", seen |-> FALSE],
                board_changed)
    /\ UNCHANGED <<board_state, old_data, tasks, running, events, now, app>>

\* board_has_changed(timeout, sleep_time) from its entry to its first await.
PollCall(timeout, sleep_time) ==
    /\ running = 0
    /\ poll.pc = "idle"
    /\ PollLoop([pc |-> "loop", timeout |-> timeout, sleep_time |-> sleep_time,
                 end_time |-> IF timeout > 0 THEN Finite(now + timeout) ELSE Inf,
                 wake |-> 0, result |-> "none", seen |-> FALSE],
                FALSE)
    /\ UNCHANGED <<board_state, old_data, tasks, running, events, now, app>>

\* The write of change_leds returns: blink_tick sleeps when its sleep_time
\* is positive, and otherwise returns into the loop without suspending.
PollWriteDone ==
    /\ running = 0
    /\ poll.pc = "writing"
    /\ IF BlinkSleep(poll.sleep_time, poll.timeout) > 0
       THEN /\ poll' = [poll EXCEPT !.pc = "sleeping",
                           !.wake = now + BlinkSleep(poll.sleep_time, poll.timeout)]
            /\ UNCHANGED <<board_changed, leds>>
       ELSE PollLoop(poll, board_changed)
    /\ UNCHANGED <<board_state, old_data, tasks, running, events, now, app>>

\* asyncio.sleep returns once its duration has passed.
PollWake ==
    /\ running = 0
    /\ poll.pc = "sleeping"
    /\ now >= poll.wake
    /\ PollLoop(poll, board_changed)
    /\ UNCHANGED <<board_state, old_data, tasks, running, events, now, app>>

\* Time passes while no coroutine runs.
Tick ==
    /\ running = 0
    /\ now < MaxTime
    /\ now' = now + 1
    /\ UNCHANGED <<board_state, old_data, board_changed, leds, tasks, running,
                   events, poll, app>>

\* Payloads of the polling runs: an empty board and one white pawn on 63.
PollPayloads == { Header \o Body(0, 0), Header \o Body(7, 0) }

NextPoll ==
    \/ \E data \in PollPayloads : Notify(data)
    \/ \E t \in 1..Len(tasks), suspends \in BOOLEAN : HandlerStep(t, suspends)
    \/ \E t \in 1..Len(tasks) : CallbackResume(t)
    \/ \E timeout \in Timeouts, sleep_time \in SleepTimes : PollCall(timeout, sleep_time)
    \/ PollWriteDone
    \/ PollWake
    \/ Tick

SpecPoll == Init /\ [][NextPoll]_vars

\* ------------------------------------------------------ the LED interface
\* Squares are numbered as in the chess library: 8 * rank + file, a1 = 0.
FileLetters == <<"a", "b", "c", "d", "e", "f", "g", "h">>
RankDigits == <<"1", "2", "3", "4", "5", "6", "7", "8">>

\* The notation string of a square, and the list that names the squares of
\* a set in ascending order.
SquareName(sq) == <<FileLetters[(sq % 8) + 1], RankDigits[(sq \div 8) + 1]>>
NamesOf(squares) ==
    LET order == Ascending(squares)
    IN  [k \in 1..Len(order) |-> SquareName(order[k])]

\* e4, e5 and the two far corners a1, h8.
E4 == 28
E5 == 36
LightSets == { {}, {E4}, {E5}, {0, 63} }

\* The requests of the LED runs: the empty square set, the empty list, None,
\* and e4 and e5 in both shapes, the list also naming e4 twice.
LedRequests ==
    { SquareSet({}), PosList(<< >>), None,
      SquareSet({E4, E5}), PosList(NamesOf({E4, E5})),
      PosList(<<SquareName(E4), SquareName(E5), SquareName(E4)>>) }

\* The application assigns the steady and the blinking set.
SetLights(light, blink) ==
    /\ running = 0
    /\ to_light' = light
    /\ to_blink' = blink
    /\ UNCHANGED <<board_state, old_data, board_changed, tick, written, tasks,
                   running, events, now, poll, app>>

\* The application awaits blink_tick(): the toggle and the write; the sleep
\* that may follow changes no state.
BlinkTickCall ==
    /\ running = 0
    /\ blink_tick
    /\ UNCHANGED <<board_state, old_data, board_changed, tasks, running, events,
                   now, poll, app>>

\* The application awaits change_leds(list_of_pos).
ChangeLedsCall(list_of_pos) ==
    /\ running = 0
    /\ change_leds(list_of_pos)
    /\ last_call' = [op |-> "change_leds", arg |-> list_of_pos]
    /\ UNCHANGED <<board_state, old_data, board_changed, tick, to_blink, to_light,
                   tasks, running, events, now, poll, cur_fen, session, anim>>

NextLeds ==
    \/ \E light \in LightSets, blink \in LightSets : SetLights(light, blink)
    \/ BlinkTickCall
    \/ \E list_of_pos \in LedRequests : ChangeLedsCall(list_of_pos)

SpecLeds == Init /\ [][NextLeds]_vars

\* Every dark square alone (a1, c1, ..., g8: all files in all ranks), the
\* empty set, e4 with e5, file a, rank 1 and the whole board, each as a
\* square set and as the list of its names.
FrameSets ==
    { {sq} : sq \in { x \in 0..63 : ((x % 8) + (x \div 8)) % 2 = 0 } } \cup
    { {}, {E4, E5}, { 8 * r : r \in 0..7 }, 0..7, 0..63 }

FrameRequests ==
    { SquareSet(squares) : squares \in FrameSets } \cup
    { PosList(NamesOf(squares)) : squares \in FrameSets }

NextFrames == \E list_of_pos \in FrameRequests : ChangeLedsCall(list_of_pos)

SpecFrames == Init /\ [][NextFrames]_vars

\* ------------------------------------------------- decoding and notation
\* None where the generator yields no piece.
NoPiece == "None"

\* One element the generator yields for a square and its symbol.
Yield(square, str) == [square |-> square, piece |-> IF str /= " " THEN str ELSE NoPiece]

\* The iterations lo..hi of the loop of board_state_as_square_and_piece: the
\* pairs they yield, and whether they end ("done") or raise (IndexError of
\* board_state[i], KeyError of a convertDict lookup).  A range of several
\* iterations is evaluated by halves, the second half only when the first
\* has not raised.
RECURSIVE SquareAndPieceRange(_, _, _)
SquareAndPieceRange(bs, lo, hi) ==
    IF lo < hi
    THEN LET mid == (lo + hi) \div 2
             first == SquareAndPieceRange(bs, lo, mid)
             second == SquareAndPieceRange(bs, mid + 1, hi)
         IN  IF first.outcome = "raise" THEN first
             ELSE [pairs |-> first.pairs \o second.pairs, outcome |-> second.outcome]
    ELSE LET i == lo
         IN  IF ~InRange(bs, i) THEN [pairs |-> << >>, outcome |-> "raise"]
             ELSE LET pair == At(bs, i)
                      left == LowNibble(pair)
                      right == HighNibble(pair)
                  IN  IF ~HasSymbol(left) THEN [pairs |-> << >>, outcome |-> "raise"]
                      ELSE IF ~HasSymbol(right)
                      THEN [pairs |-> <<Yield(LastSquare - i * 2, convertDict[left])>>,
                            outcome |-> "raise"]
                      ELSE [pairs |-> <<Yield(LastSquare - i * 2, convertDict[left]),
                                        Yield(LastSquare - (i * 2 + 1),
                                              convertDict[right])>>,
                            outcome |-> "done"]

board_state_as_square_and_piece(bs) == SquareAndPieceRange(bs, 0, NBytes - 1)

\* str(n) for a one-digit n
Str(n) == <<(<<"0", "1", "2", "3", "4", "5", "6", "7", "8", "9">>)[n + 1]>>

\* p.isdigit() and int(p) for one character
IsDigit(p) == p \in {"0", "1", "2", "3", "4", "5", "6", "7", "8", "9"}
int(p) == CHOOSE n \in 0..9 : Str(n) = <<p>>

\* s.split(sep) for a one-character separator: the pieces between the
\* occurrences of the separator, empty pieces included.
Split(s, sep) ==
    LET at == Ascending({ k \in 1..Len(s) : s[k] = sep })
        n == Len(at)
        bound(j) == IF j = 0 THEN 0 ELSE IF j = n + 1 THEN Len(s) + 1 ELSE at[j]
    IN  [j \in 1..(n + 1) |-> SubSeq(s, bound(j - 1) + 1, bound(j) - 1)]

\* reversed(s)
Reversed(s) == [k \in 1..Len(s) |-> s[Len(s) + 1 - k]]

\* sep.join(rows) for the rows lo..hi, evaluated by halves.
RECURSIVE JoinRange(_, _, _, _)
JoinRange(rows, sep, lo, hi) ==
    IF lo > hi THEN << >>
    ELSE IF lo = hi THEN rows[lo]
    ELSE LET mid == (lo + hi) \div 2
         IN  JoinRange(rows, sep, lo, mid) \o sep \o JoinRange(rows, sep, mid + 1, hi)

Join(rows, sep) == JoinRange(rows, sep, 1, Len(rows))

\* handle_empties(): the digit a positive empty_count appends to fen.
handle_empties(empty_count) ==
    IF empty_count > 0 THEN Str(empty_count) ELSE << >>

\* The loop of board_state_as_fen over the yielded pairs from pair k on with
\* the empty_count reached so far: the characters it appends to fen.
RECURSIVE FenLoop(_, _, _)
FenLoop(pairs, k, empty_count) ==
    IF k > Len(pairs) THEN << >>
    ELSE LET square == pairs[k].square
             piece == pairs[k].piece
             fen1 == IF piece /= NoPiece
                     THEN handle_empties(empty_count) \o <<piece>>
                     ELSE << >>
             count1 == IF piece /= NoPiece THEN 0 ELSE empty_count + 1
         IN  IF square % 8 = 0
             THEN fen1 \o handle_empties(count1) \o <<"/">> \o FenLoop(pairs, k + 1, 0)
             ELSE fen1 \o FenLoop(pairs, k + 1, count1)

\* board_state_as_fen without reversed(row): the ranks stay in stream order.
\* The loop is evaluated over the 64 pairs in groups of 8: every group ends
\* with a square of file a, after which empty_count is 0.
board_state_as_fen_rows_not_reversed(bs) ==
    LET gen == board_state_as_square_and_piece(bs)
    IN  IF gen.outcome = "raise" THEN [outcome |-> "raise", value |-> << >>]
        ELSE LET fen == Join([r \in 1..8 |->
                                 FenLoop(SubSeq(gen.pairs, 8 * r - 7, 8 * r), 1, 0)],
                             << >>)
                 rows == Split(SubSeq(fen, 1, Len(fen) - 1), "/")
             IN  [outcome |-> "ok", value |-> Join(rows, <<"/">>)]

\* board_state_as_fen: the string it returns and stores in cur_fen, or the
\* exception of the generator.
board_state_as_fen(bs) ==
    LET gen == board_state_as_square_and_piece(bs)
    IN  IF gen.outcome = "raise" THEN [outcome |-> "raise", value |-> << >>]
        ELSE LET fen == Join([r \in 1..8 |->
                                 FenLoop(SubSeq(gen.pairs, 8 * r - 7, 8 * r), 1, 0)],
                             << >>)
                 rows == Split(SubSeq(fen, 1, Len(fen) - 1), "/")
             IN  [outcome |-> "ok",
                  value |-> Join([k \in 1..Len(rows) |-> Reversed(rows[k])], <<"/">>)]

\* The first whitespace-separated field of a string: fen.split()[0]; there
\* is none (IndexError) in a string of blanks.
Fields(s) == SelectSeq(Split(s, " "), LAMBDA f : f /= << >>)

\* convert_fen expanding no digit.
ExpandCharNever(p) == <<p>>

\* One character of the board field as convert_fen maps it: a digit other
\* than 1 becomes that many 1s.
ExpandChar(p) == IF IsDigit(p) /\ p /= "1" THEN [k \in 1..int(p) |-> "1"] ELSE <<p>>

\* convert_fen(fen) for a string with at least one field
convert_fen(fen) ==
    LET field == Fields(fen)[1]
    IN  Join([k \in 1..Len(field) |-> ExpandChar(field[k])], << >>)

\* chess.Piece.from_symbol accepts exactly the twelve piece letters.
PieceSymbols == {"p", "n", "b", "r", "q", "k", "P", "N", "B", "R", "Q", "K"}

\* The loop of compare_board_state_to_fen over the yielded pairs lo..hi: the
\* differences it appends, or the exception it ends with (target[square]
\* raises IndexError past the end of target, from_symbol raises for a
\* character that is no piece letter).  A range of several pairs is
\* evaluated by halves.
RECURSIVE CompareLoop(_, _, _, _)
CompareLoop(pairs, lo, hi, target) ==
    IF lo > hi THEN [outcome |-> "ok", value |-> << >>]
    ELSE IF lo < hi
    THEN LET mid == (lo + hi) \div 2
             first == CompareLoop(pairs, lo, mid, target)
             second == CompareLoop(pairs, mid + 1, hi, target)
         IN  IF first.outcome = "raise" THEN first
             ELSE IF second.outcome = "raise" THEN second
             ELSE [outcome |-> "ok", value |-> first.value \o second.value]
    ELSE LET square == pairs[lo].square
             piece == pairs[lo].piece
         IN  IF ~InRange(target, square) THEN [outcome |-> "raise", value |-> << >>]
             ELSE IF At(target, square) /= "1" /\ At(target, square) \notin PieceSymbols
             THEN [outcome |-> "raise", value |-> << >>]
             ELSE LET new_piece == IF At(target, square) /= "1"
                                   THEN At(target, square) ELSE NoPiece
                  IN  [outcome |-> "ok",
                       value |-> IF piece /= new_piece
                                 THEN <<[piece |-> piece, square |-> square,
                                         new_piece |-> new_piece]>>
                                 ELSE << >>]

\* compare_board_state_to_fen with the order of the ranks of the target
\* left as the target has it.
compare_ranks_not_reversed(bs, target_fen) ==
    IF Fields(target_fen) = << >> THEN [outcome |-> "raise", value |-> << >>]
    ELSE LET target == Join(Split(convert_fen(target_fen), "/"), << >>)
             gen == board_state_as_square_and_piece(bs)
             res == CompareLoop(gen.pairs, 1, Len(gen.pairs), target)
         IN  IF res.outcome = "raise" \/ gen.outcome = "raise"
             THEN [outcome |-> "raise", value |-> << >>]
             ELSE res

\* compare_board_state_to_fen(target_fen): the list of differences, or the
\* exception of split()[0], of the generator or of the loop.
compare_board_state_to_fen(bs, target_fen) ==
    IF Fields(target_fen) = << >> THEN [outcome |-> "raise", value |-> << >>]
    ELSE LET target == Join(Reversed(Split(convert_fen(target_fen), "/")), << >>)
             gen == board_state_as_square_and_piece(bs)
             res == CompareLoop(gen.pairs, 1, Len(gen.pairs), target)
         IN  IF res.outcome = "raise" \/ gen.outcome = "raise"
             THEN [outcome |-> "raise", value |-> << >>]
             ELSE res

\* loc_to_pos(location, rev)
loc_to_pos(location, rev) ==
    <<(<<"h", "g", "f", "e", "d", "c", "b", "a">>)[(location % 8) + 1]>>
        \o Str(IF ~rev THEN 8 - (location \div 8) ELSE location \div 8)

\* ---------------------------------------------- inputs of the notation runs
\* A board buffer that is 0 except for the bytes m gives (byte index -> value).
BoardWith(m) == [k \in 1..NBytes |-> IF (k - 1) \in DOMAIN m THEN m[k - 1] ELSE 0]

\* The starting layout: black pieces in bytes 0..3, black pawns in 4..7,
\* white pawns in 24..27, white pieces in 28..31.
StartPosition ==
    <<88, 35, 49, 133, 68, 68, 68, 68, 0, 0, 0, 0, 0, 0, 0, 0,
      0, 0, 0, 0, 0, 0, 0, 0, 119, 119, 119, 119, 166, 201, 155, 106>>

\* A board with runs of empty squares at the start, in the middle and at the
\* end of a rank: r6P/2p2pp1/8/8/4p3/8/8/3K4.
RunsPosition ==
    BoardWith((0 :> 7) @@ (3 :> 128) @@ (4 :> 64) @@ (5 :> 4) @@ (6 :> 64) @@
              (17 :> 64) @@ (30 :> 12))

\* The starting layout, the board with the runs, and the board whose g8
\* holds the code 13 without a symbol, with white pawns on h8 and a1.  The
\* empty board is the one the session starts with.
NotationBodies == { StartPosition, RunsPosition, Body(215, 112) }

NotationPayloads == { Header \o b : b \in NotationBodies }

\* Targets of the comparison.
StartFen ==
    <<"r", "n", "b", "q", "k", "b", "n", "r", "/", "p", "p", "p", "p", "p",
      "p", "p", "p", "/", "8", "/", "8", "/", "8", "/", "8", "/", "P", "P",
      "P", "P", "P", "P", "P", "P", "/", "R", "N", "B", "Q", "K", "B", "N",
      "R">>

StartFenWithFields ==
    <<"r", "n", "b", "q", "k", "b", "n", "r", "/", "p", "p", "p", "p", "p",
      "p", "p", "p", "/", "8", "/", "8", "/", "8", "/", "8", "/", "P", "P",
      "P", "P", "P", "P", "P", "P", "/", "R", "N", "B", "Q", "K", "B", "N",
      "R", " ", "w", " ", "K", "Q", "k", "q", " ", "-", " ", "0", " ",
      "1">>

EmptyFen ==
    <<"8", "/", "8", "/", "8", "/", "8", "/", "8", "/", "8", "/", "8", "/",
      "8">>

\* 1. e4 c5 with its fields; the board field uses the digit 1.
SicilianFen ==
    <<"r", "n", "b", "q", "k", "b", "n", "r", "/", "p", "p", "1", "p", "p",
      "p", "p", "p", "/", "8", "/", "2", "p", "5", "/", "4", "P", "3", "/",
      "8", "/", "P", "P", "P", "P", "1", "P", "P", "P", "/", "R", "N", "B",
      "Q", "K", "B", "N", "R", " ", "w", " ", "K", "Q", "k", "q", " ", "c",
      "6", " ", "0", " ", "2">>

Targets == { StartFenWithFields, EmptyFen, SicilianFen }

\* --------------------------------------------- the notation interface
\* The application iterates board_state_as_square_and_piece(board_state) to
\* its end or to its exception.
DecodeCall ==
    /\ running = 0
    /\ last_call' = [op |-> "board_state_as_square_and_piece", board |-> board_state,
                     result |-> board_state_as_square_and_piece(board_state.bytes)]
    /\ UNCHANGED <<board_state, old_data, board_changed, leds, tasks, running,
                   events, now, poll, cur_fen, session, anim>>

\* board_state_as_fen storing the decoded bytes back as a list.
FenCallStoresList ==
    /\ running = 0
    /\ LET res == board_state_as_fen(board_state.bytes)
       IN  /\ cur_fen' = IF res.outcome = "ok" THEN res.value ELSE cur_fen
           /\ last_call' = [op |-> "board_state_as_fen", board |-> board_state,
                            result |-> res]
    /\ board_state' = PyList(board_state.bytes)
    /\ UNCHANGED <<old_data, board_changed, leds, tasks, running,
                   events, now, poll, session, anim>>

\* The application calls board_state_as_fen().
FenCall ==
    /\ running = 0
    /\ LET res == board_state_as_fen(board_state.bytes)
       IN  /\ cur_fen' = IF res.outcome = "ok" THEN res.value ELSE cur_fen
           /\ last_call' = [op |-> "board_state_as_fen", board |-> board_state,
                            result |-> res]
    /\ UNCHANGED <<board_state, old_data, board_changed, leds, tasks, running,
                   events, now, poll, session, anim>>

\* The application calls compare_board_state_to_fen(target_fen).
CompareCall(target_fen) ==
    /\ running = 0
    /\ last_call' = [op |-> "compare_board_state_to_fen", board |-> board_state,
                     target_fen |-> target_fen,
                     result |-> compare_board_state_to_fen(board_state.bytes, target_fen)]
    /\ UNCHANGED <<board_state, old_data, board_changed, leds, tasks, running,
                   events, now, poll, cur_fen, session, anim>>

\* The application calls loc_to_pos(location, rev).
LocToPosCall(location, rev) ==
    /\ running = 0
    /\ last_call' = [op |-> "loc_to_pos", location |-> location, rev |-> rev,
                     result |-> loc_to_pos(location, rev)]
    /\ UNCHANGED <<board_state, old_data, board_changed, leds, tasks, running,
                   events, now, poll, cur_fen, session, anim>>

\* The notation runs: payloads arrive, the callbacks of the application
\* return without suspending, and the application queries the board between
\* the payloads.
NextNotation ==
    \/ \E data \in NotationPayloads : Notify(data)
    \/ \E t \in 1..Len(tasks) : HandlerStep(t, FALSE)
    \/ DecodeCall
    \/ FenCall
    \/ \E target_fen \in Targets \cup {cur_fen} : CompareCall(target_fen)

SpecNotation == Init /\ [][NextNotation]_vars

\* The square names: the application names every location, on the plain
\* and on the reversed board.
NextSquares == \E location \in 0..63, rev \in BOOLEAN : LocToPosCall(location, rev)

SpecSquares == Init /\ [][NextSquares]_vars

\* ------------------------------------------------------- play_animation
\* chess.parse_square(name): the index of the name in the list of the 64
\* square names; ValueError for a string that is no square name.
IsSquareName(name) == \E sq \in 0..63 : SquareName(sq) = name
parse_square(name) == CHOOSE sq \in 0..63 : SquareName(sq) = name

\* chess.SquareSet(map(lambda s: chess.parse_square(s), frame))
FrameSquares(frame) == { parse_square(frame[k]) : k \in 1..Len(frame) }

\* The for loop of play_animation at the frames that are left: the end of
\* the loop, the exception of parse_square, or change_leds of the first
\* frame up to the await of its write.
AnimLoop(frames, sleep_time) ==
    IF frames = << >>
    THEN /\ anim' = NoAnimation
         /\ written' = written
    ELSE IF \E k \in 1..Len(Head(frames)) : ~IsSquareName(Head(frames)[k])
    THEN /\ anim' = [pc |-> "raised", frames |-> frames, sleep_time |-> sleep_time,
                     wake |-> 0]
         /\ written' = written
    ELSE /\ change_leds(SquareSet(FrameSquares(Head(frames))))
         /\ anim' = [pc |-> "writing", frames |-> frames, sleep_time |-> sleep_time,
                     wake |-> 0]

\* The application awaits play_animation(list_of_frames, sleep_time).
PlayAnimationCall(list_of_frames, sleep_time) ==
    /\ running = 0
    /\ anim.pc \in {"idle", "raised"}
    /\ AnimLoop(list_of_frames, sleep_time)
    /\ UNCHANGED <<board_state, old_data, board_changed, tick, to_blink, to_light,
                   tasks, running, events, now, poll, cur_fen, last_call, session>>

\* The write of change_leds returns and play_animation sleeps.
AnimWriteDone ==
    /\ running = 0
    /\ anim.pc = "writing"
    /\ anim' = [anim EXCEPT !.pc = "sleeping", !.wake = now + anim.sleep_time]
    /\ UNCHANGED <<board_state, old_data, board_changed, leds, tasks, running,
                   events, now, poll, cur_fen, last_call, session>>

\* asyncio.sleep returns and the loop goes on with the next frame.
AnimWake ==
    /\ running = 0
    /\ anim.pc = "sleeping"
    /\ now >= anim.wake
    /\ AnimLoop(Tail(anim.frames), anim.sleep_time)
    /\ UNCHANGED <<board_state, old_data, board_changed, tick, to_blink, to_light,
                   tasks, running, events, now, poll, cur_fen, last_call, session>>

\* Animations: no frame, e4 then e5, and a frame that names no square after
\* the frame e4.
Animations ==
    { << >>,
      <<NamesOf({E4}), NamesOf({E5})>>,
      <<NamesOf({E4}), <<(<<"i", "9">>)>> >> }

AnimSleepTimes == {0}

\* --------------------------------------------------- the whole interface
\* Arguments of board_has_changed in the runs of the whole interface: no
\* timeout and no sleep, so that these runs need no clock.
SessionTimeouts == {0}
SessionSleepTimes == {0}

\* Requests of change_leds in the runs of the whole interface.
SessionRequests == { SquareSet({E4}), None }

\* The application is one coroutine: it awaits one operation at a time, and
\* while it is suspended in board_has_changed or play_animation it starts no
\* other operation.
AppFree == poll.pc = "idle" /\ anim.pc \in {"idle", "raised"}

\* The application uses every operation of the class, one after the other,
\* while payloads arrive; its callbacks return without suspending.
NextSession ==
    \/ \E data \in PollPayloads : Notify(data)
    \/ \E t \in 1..Len(tasks) : HandlerStep(t, FALSE)
    \/ \E timeout \in SessionTimeouts, sleep_time \in SessionSleepTimes :
          AppFree /\ PollCall(timeout, sleep_time)
    \/ PollWriteDone
    \/ AppFree /\ BlinkTickCall
    \/ \E list_of_pos \in SessionRequests : AppFree /\ ChangeLedsCall(list_of_pos)
    \/ \E list_of_frames \in Animations, sleep_time \in AnimSleepTimes :
          AppFree /\ PlayAnimationCall(list_of_frames, sleep_time)
    \/ AnimWriteDone
    \/ AnimWake
    \/ AppFree /\ FenCall
    \/ AppFree /\ CompareCall(EmptyFen)

SpecSession == Init /\ [][NextSession]_vars

\* ------------------------------------------------------------------ run()
\* constants.INITIALIZATION_CODE: a fixed byte sequence the protocol of the
\* device defines; no LED command.
INITIALIZATION_CODE == <<33, 1, 0>>

\* async with BleakClient(self._device) as client: self._connection = client
RunConnect ==
    /\ running = 0
    /\ session.pc = "not_started"
    /\ session' = [pc |-> "connected", subscribed |-> FALSE, connected |-> TRUE]
    /\ UNCHANGED <<board_state, old_data, board_changed, leds, tasks, running,
                   events, now, poll, cur_fen, last_call, anim>>

\* await client.write_gatt_char(WRITE_CHARACTERISTIC, INITIALIZATION_CODE)
RunInitialize ==
    /\ running = 0
    /\ session.pc = "connected"
    /\ Len(written) < MaxWrites
    /\ written' = Append(written, INITIALIZATION_CODE)
    /\ session' = [session EXCEPT !.pc = "initialized"]
    /\ UNCHANGED <<board_state, old_data, board_changed, tick, to_blink, to_light,
                   tasks, running, events, now, poll, cur_fen, last_call, anim>>

\* run() with start_notify ahead of the initialization command.
RunStartNotifyEarly ==
    /\ running = 0
    /\ session.pc = "connected"
    /\ ~session.subscribed
    /\ session' = [session EXCEPT !.subscribed = TRUE]
    /\ UNCHANGED <<board_state, old_data, board_changed, leds, tasks, running,
                   events, now, poll, cur_fen, last_call, anim>>

\* await client.start_notify(READ_DATA_CHARACTERISTIC, self._handler), and
\* the call of self.game_loop() after it
RunStartNotify ==
    /\ running = 0
    /\ session.pc = "initialized"
    /\ session' = [session EXCEPT !.pc = "game_loop", !.subscribed = TRUE]
    /\ UNCHANGED <<board_state, old_data, board_changed, leds, tasks, running,
                   events, now, poll, cur_fen, last_call, anim>>

\* The transport notifies the subscribed handler of a connected client.
RunNotify(data) ==
    /\ session.subscribed
    /\ session.connected
    /\ Notify(data)

\* The game loop of the application lights e4.
GameLoopLeds ==
    /\ session.pc = "game_loop"
    /\ ChangeLedsCall(SquareSet({E4}))

\* await self.game_loop() returns.
GameLoopReturn ==
    /\ running = 0
    /\ session.pc = "game_loop"
    /\ session' = [session EXCEPT !.pc = "stopping"]
    /\ UNCHANGED <<board_state, old_data, board_changed, leds, tasks, running,
                   events, now, poll, cur_fen, last_call, anim>>

\* self.game_loop() raises (as the default does): run() leaves the
\* async with block, which disconnects, without calling stop_handler.
GameLoopRaise ==
    /\ running = 0
    /\ session.pc = "game_loop"
    /\ session' = [session EXCEPT !.pc = "failed", !.connected = FALSE]
    /\ UNCHANGED <<board_state, old_data, board_changed, leds, tasks, running,
                   events, now, poll, cur_fen, last_call, anim>>

\* await self.stop_handler(): stop_notify of the connection
RunStopHandler ==
    /\ running = 0
    /\ session.pc = "stopping"
    /\ session' = [session EXCEPT !.pc = "stopped", !.subscribed = FALSE]
    /\ UNCHANGED <<board_state, old_data, board_changed, leds, tasks, running,
                   events, now, poll, cur_fen, last_call, anim>>

\* The end of the async with block: the client disconnects.
RunDisconnect ==
    /\ running = 0
    /\ session.pc = "stopped"
    /\ session' = [session EXCEPT !.pc = "done", !.connected = FALSE]
    /\ UNCHANGED <<board_state, old_data, board_changed, leds, tasks, running,
                   events, now, poll, cur_fen, last_call, anim>>

NextRun ==
    \/ RunConnect
    \/ RunInitialize
    \/ RunStartNotify
    \/ \E data \in PollPayloads : RunNotify(data)
    \/ \E t \in 1..Len(tasks), suspends \in BOOLEAN : HandlerStep(t, suspends)
    \/ \E t \in 1..Len(tasks) : CallbackResume(t)
    \/ GameLoopLeds
    \/ GameLoopReturn
    \/ GameLoopRaise
    \/ RunStopHandler
    \/ RunDisconnect

SpecRun == Init /\ [][NextRun]_vars

\* ================================================================== claims
\* Vocabulary of the claims, stated on the buffers and not on the handler's
\* loop.  A stream position p in 0..63 is nibble p of the buffer: the low
\* nibble of byte p/2 for an even p, the high nibble for an odd p; its
\* square is 63 - p.
Positions == 0..(2 * NBytes - 1)

HasNibble(buf, p) == (p \div 2) < Len(buf.bytes)

NibbleAt(buf, p) ==
    IF p % 2 = 0 THEN buf.bytes[(p \div 2) + 1] % 16
    ELSE buf.bytes[(p \div 2) + 1] \div 16

\* Nibble p is in both buffers and differs.
Differs(od, rdata, p) ==
    /\ HasNibble(od, p)
    /\ HasNibble(rdata, p)
    /\ NibbleAt(od, p) /= NibbleAt(rdata, p)

\* The code whose symbol the event of a differing nibble needs.
LookedUp(od, rdata, p) ==
    IF NibbleAt(rdata, p) = 0 THEN NibbleAt(od, p) ELSE NibbleAt(rdata, p)

\* The nibbles that are in both buffers and differ; they lie in the bytes
\* that differ.
DiffPositions(od, rdata) ==
    LET n == IF Len(od.bytes) < Len(rdata.bytes) THEN Len(od.bytes) ELSE Len(rdata.bytes)
        D == { i \in 0..(n - 1) : od.bytes[i + 1] /= rdata.bytes[i + 1] }
    IN  { p \in UNION { {2 * i, 2 * i + 1} : i \in D } :
            NibbleAt(od, p) /= NibbleAt(rdata, p) }

\* The handler cannot get past nibble p when its byte is missing from one of
\* the buffers, or when the nibble differs and the looked-up code has no
\* symbol.  The first such nibble is the first differing one without a
\* symbol among the nibbles both buffers have, or else the first nibble one
\* of them lacks (2 * NBytes when there is none).
Shorter(a, b) == IF a < b THEN a ELSE b

FirstFail(od, rdata) ==
    LET limit == 2 * Shorter(NBytes, Shorter(Len(od.bytes), Len(rdata.bytes)))
        K == { p \in DiffPositions(od, rdata) :
                 p < limit /\ LookedUp(od, rdata, p) \notin 0..12 }
    IN  IF K = {} THEN limit ELSE CHOOSE p \in K : \A q \in K : p <= q

EventAt(od, rdata, p) ==
    [kind |-> IF NibbleAt(rdata, p) = 0 THEN "up" ELSE "down",
     square |-> 63 - p,
     piece |-> convertDict[LookedUp(od, rdata, p)]]

\* One event per differing nibble before the first failing one, ascending.
ExpectedEvents(od, rdata) ==
    LET first == FirstFail(od, rdata)
        P == { p \in DiffPositions(od, rdata) : p < first }
        order == Ascending(P)
    IN  [k \in 1..Cardinality(P) |-> EventAt(od, rdata, order[k])]

\* The events task t has emitted so far, in emission order.
EventsOf(t) ==
    LET own == SelectSeq(events, LAMBDA e : e.task = t)
    IN  [k \in 1..Len(own) |->
            [kind |-> own[k].kind, square |-> own[k].square, piece |-> own[k].piece]]

IsPrefix(a, b) == Len(a) <= Len(b) /\ a = SubSeq(b, 1, Len(a))

Ended(t) == tasks[t].pc \in {"done", "raised"}

TaskIds == 1..Len(tasks)

C2_EventKindAndPiece ==
    /\ \A k \in 1..Len(events) :
        LET e == events[k]
            od == tasks[e.task].od
            rdata == tasks[e.task].rdata
            p == 63 - e.square
            old == NibbleAt(od, p)
            new == NibbleAt(rdata, p)
        IN  /\ old /= new
            /\ new = 0 => (e.kind = "up" /\ e.piece = convertDict[old])
            /\ new /= 0 => (e.kind = "down" /\ e.piece = convertDict[new])
    /\ \A j, k \in 1..Len(events) :
        (events[j].task = events[k].task /\ events[j].square = events[k].square) => j = k

\* C2 witness: a white pawn on square 63 was replaced by a black pawn, and
\* the handler that has ended emitted for square 63 a piece_down of the
\* black pawn and nothing else.
C2_Witness ==
    \E t \in TaskIds :
        /\ Ended(t)
        /\ HasNibble(tasks[t].od, 0)
        /\ NibbleAt(tasks[t].od, 0) = 7
        /\ NibbleAt(tasks[t].rdata, 0) = 4
        /\ \E k \in 1..Len(events) :
            /\ events[k] = [task |-> t, kind |-> "down", square |-> 63, piece |-> "p"]
            /\ \A j \in 1..Len(events) :
                (events[j].task = t /\ events[j].square = 63) => j = k

\* A payload the decoder accepts: 32 board bytes, every nibble with a symbol.
ValidBuffer(buf) ==
    /\ Len(buf.bytes) = NBytes
    /\ \A p \in Positions : NibbleAt(buf, p) \in 0..12

\* C3 (as claimed): the first valid payload of the session only sets the
\* baseline; its handler emits no event.
C3_FirstPayloadSilent ==
    \A t \in TaskIds :
        (ValidBuffer(tasks[t].rdata) /\ \A u \in 1..(t - 1) : ~ValidBuffer(tasks[u].rdata))
            => EventsOf(t) = << >>

\* C4 (as claimed): every event of one payload is delivered before any event
\* of the next payload.
C4_PayloadsSerialized ==
    \A a, b \in 1..Len(events) : a < b => events[a].task <= events[b].task

\* The board bytes of the payload before payload t; [0]*32 before the first.
PreviousBytes(t) == IF t = 1 THEN Zeros ELSE tasks[t - 1].rdata.bytes

EventCount(t, p) ==
    Cardinality({ k \in 1..Len(events) : events[k].task = t /\ events[k].square = 63 - p })

AllEnded == \A t \in TaskIds : Ended(t)

\* A later payload's event was delivered before an earlier payload's event:
\* the earlier payload's callback was suspended when the later one arrived.
Overlapped ==
    \E a, b \in 1..Len(events) : a < b /\ events[a].task > events[b].task

HasUnmappedNibble(buf) ==
    \E p \in Positions : HasNibble(buf, p) /\ NibbleAt(buf, p) \notin 0..12

\* C6 (as claimed): after the handler of a payload with a nibble that has no
\* symbol has ended, board_state and the baseline are what they were before
\* the payload.
C6_MalformedUpdateDropped ==
    \A t \in TaskIds :
        (t = Len(tasks) /\ Ended(t) /\ HasUnmappedNibble(tasks[t].rdata)) =>
            /\ old_data.bytes = tasks[t].od.bytes
            /\ board_state.bytes = tasks[t].od.bytes

\* C7 (as claimed): a payload shorter than 34 bytes emits no event and leaves
\* the retained buffers unchanged, so the retained buffers always have
\* exactly 32 bytes.
C7_ShortPayloadDropped ==
    /\ \A t \in TaskIds : Len(tasks[t].rdata.bytes) < NBytes => EventsOf(t) = << >>
    /\ Len(old_data.bytes) = NBytes
    /\ Len(board_state.bytes) = NBytes

\* C8 (as claimed): a payload whose 32 board bytes equal the retained buffer
\* is a no-op, the first payload of the session included: no event fires,
\* and board_state, the baseline and the change flag stay as they were.
C8_EqualPayloadNoOp ==
    [][ (/\ Len(tasks') = Len(tasks) + 1
         /\ Len(old_data.bytes) = NBytes
         /\ tasks'[Len(tasks')].rdata.bytes = old_data.bytes)
        => (/\ events' = events
            /\ board_state'.bytes = board_state.bytes
            /\ old_data'.bytes = old_data.bytes
            /\ board_changed' = board_changed) ]_vars

\* C9: board_has_changed returns True only when a payload processed during
\* the call set the change flag, and False only when no payload did and the
\* deadline has passed; while the call runs the flag is set exactly when a
\* payload processed during the call set it, so a change processed before
\* the call is not reported.
C9_PollResult ==
    /\ poll.result = "true" => poll.seen
    /\ poll.result = "false" => (~poll.seen /\ GeTime(now, poll.end_time))
    /\ poll.pc /= "idle" => (board_changed <=> poll.seen)

\* C9 witness: a payload changed the board before the call began, and the
\* call returned False at its deadline without reporting that change.
C9_Witness ==
    /\ poll.result = "false"
    /\ ~board_changed
    /\ \E t \in TaskIds : tasks[t].rdata.bytes /= tasks[t].od.bytes

\* C10 (as claimed): with a timeout of zero or below the call never returns
\* False, returns True only after a payload set the flag during the call,
\* and every blink_tick it invokes with a positive caller-supplied
\* sleep_time suspends at its wait step once its LED write has returned.
C10_NoTimeoutWaitsEveryTick ==
    /\ [](poll.timeout <= 0 => (poll.result /= "false" /\ (poll.result = "true" => poll.seen)))
    /\ [][ (/\ poll.pc = "writing"
            /\ poll.timeout <= 0
            /\ poll.sleep_time > 0
            /\ (poll'.pc /= "writing" \/ tick' /= tick))
           => poll'.pc = "sleeping" ]_vars

\* ---------------------------------------------------------- LED frames
\* The frame the interface defines for a set of squares: byte 7 - rank
\* (rank 1 = 0) has bit 7 - file (file a = 0) set exactly for the squares of
\* the set.
ExpectedFrame(squares) ==
    [k \in 1..8 |->
        BitsValue({ 7 - f : f \in { g \in 0..7 : 8 * (8 - k) + g \in squares } })]

\* The squares whose bits are set in a frame.
DecodeFrame(frame) ==
    { 8 * (8 - k) + f : k \in 1..8, f \in 0..7 } \cap
    { sq \in 0..63 : (frame[8 - (sq \div 8)] \div 2 ^ (7 - (sq % 8))) % 2 = 1 }

ParseSquare(name) == CHOOSE sq \in 0..63 : SquareName(sq) = name

\* The squares a request of change_leds asks for.
SquaresOf(list_of_pos) ==
    IF list_of_pos.typ = "SquareSet" THEN list_of_pos.squares
    ELSE { ParseSquare(list_of_pos.pos[k]) : k \in 1..Len(list_of_pos.pos) }

LastWritten == written[Len(written)]

ZeroCommand == <<10, 8, 0, 0, 0, 0, 0, 0, 0, 0>>

\* C11: every blink_tick toggles the tick flag and writes exactly one LED
\* command, the frame of the steady and the blinking set together when the
\* flag is on after the toggle and the frame of the steady set alone when it
\* is off, so consecutive invocations alternate between the two; it changes
\* neither set.
C11_BlinkTickAlternates ==
    [][ BlinkTickCall =>
          /\ tick' = ~tick
          /\ written' = Append(written,
                led_command \o ExpectedFrame(IF tick' THEN to_light \cup to_blink
                                                      ELSE to_light))
          /\ to_light' = to_light
          /\ to_blink' = to_blink ]_vars

\* C11 witness: with e4 steady and e5 blinking, two consecutive ticks wrote
\* the frame lighting e4 and e5 (on) and then the frame lighting only e4
\* (off).
C11_Witness ==
    /\ to_light = {E4}
    /\ to_blink = {E5}
    /\ ~tick
    /\ written = << <<10, 8, 0, 0, 0, 8, 8, 0, 0, 0>>, <<10, 8, 0, 0, 0, 0, 8, 0, 0, 0>> >>

\* C12: change_leds with the empty square set or the empty list writes
\* exactly one command, 0x0A 0x08 and eight zero bytes; change_leds(None)
\* writes nothing; every command written is 0x0A 0x08 followed by 8 bytes.
C12_EmptyClearsNoneSkips ==
    /\ [](\A k \in 1..Len(written) :
            /\ Len(written[k]) = 10
            /\ written[k][1] = 10
            /\ written[k][2] = 8
            /\ \A j \in 3..10 : written[k][j] \in 0..255)
    /\ [][ \A req \in LedRequests :
            ChangeLedsCall(req) =>
                /\ req.typ = "None" => written' = written
                /\ (req.typ = "SquareSet" /\ req.squares = {}) =>
                        written' = Append(written, ZeroCommand)
                /\ (req.typ = "list" /\ req.pos = << >>) =>
                        written' = Append(written, ZeroCommand) ]_vars

\* C12 witness: an empty request wrote the all-zero command, and the call
\* with None after it wrote nothing.
C12_Witness ==
    /\ last_call = [op |-> "change_leds", arg |-> None]
    /\ written = <<ZeroCommand>>

\* C13: the command change_leds writes for a request, a square set or the
\* list of the names of the same squares, carries the frame with bit
\* 7 - file of byte 7 - rank set exactly for the requested squares, and
\* reading the set bits back gives the requested squares; so both shapes
\* give one frame and distinct sets give distinct frames.
C13_FrameLayout ==
    (last_call.op = "change_leds" /\ written /= << >>) =>
        /\ LastWritten = led_command \o ExpectedFrame(SquaresOf(last_call.arg))
        /\ DecodeFrame(SubSeq(LastWritten, 3, 10)) = SquaresOf(last_call.arg)

\* C13 witness: a1 was requested twice, the second time as the list ["a1"],
\* and both commands have only bit 7 of byte 7 set.
C13_Witness ==
    /\ last_call = [op |-> "change_leds", arg |-> PosList(<<SquareName(0)>>)]
    /\ written = << <<10, 8, 0, 0, 0, 0, 0, 0, 0, 128>>, <<10, 8, 0, 0, 0, 0, 0, 0, 0, 128>> >>

\* ---------------------------------------------------- notation claims
\* The piece the buffer holds for square s: the symbol of nibble 63 - s, no
\* piece for code 0.
PieceOn(buf, s) ==
    IF NibbleAt(buf, 63 - s) = 0 THEN NoPiece ELSE convertDict[NibbleAt(buf, 63 - s)]

Occupied(buf, s) == NibbleAt(buf, 63 - s) /= 0

\* What the board field shows for file f of rank r (both from 0): the piece
\* letter of an occupied square; for an empty square that ends a run of
\* empty squares, the length of the run; nothing for the other empty ones.
FenCell(buf, r, f) ==
    IF Occupied(buf, 8 * r + f) THEN <<PieceOn(buf, 8 * r + f)>>
    ELSE IF f < 7 /\ ~Occupied(buf, 8 * r + f + 1) THEN << >>
    ELSE LET before == { g \in 0..f : Occupied(buf, 8 * r + g) }
             start == IF before = {} THEN 0
                      ELSE (CHOOSE g \in before : \A h \in before : h <= g) + 1
         IN  Str(f - start + 1)

\* The board field of a buffer: rank 8 first, files a to h inside a rank.
ExpectedFen(buf) ==
    Join([k \in 1..8 |-> Join([j \in 1..8 |-> FenCell(buf, 8 - k, j - 1)], << >>)],
         <<"/">>)

\* The squares one character of a board field stands for.
SquaresOfChar(c) == IF IsDigit(c) THEN [k \in 1..int(c) |-> "1"] ELSE <<c>>
ExpandedRank(rank) == Join([k \in 1..Len(rank) |-> SquaresOfChar(rank[k])], << >>)

\* The board field of a target: the characters before its first space.
BoardField(target_fen) ==
    LET blanks == { k \in 1..Len(target_fen) : target_fen[k] = " " }
    IN  IF blanks = {} THEN target_fen
        ELSE SubSeq(target_fen, 1, (CHOOSE k \in blanks : \A j \in blanks : k <= j) - 1)

\* The board field has eight ranks of piece letters and digits 1..8, each
\* standing for eight squares.
Describes64(target_fen) ==
    LET ranks == Split(BoardField(target_fen), "/")
    IN  /\ Len(ranks) = 8
        /\ \A k \in 1..8 :
            /\ \A j \in 1..Len(ranks[k]) :
                ranks[k][j] \in PieceSymbols \cup {"1", "2", "3", "4", "5", "6", "7", "8"}
            /\ Len(ExpandedRank(ranks[k])) = 8

\* The pieces a target that describes 64 squares expects, by square (index
\* s + 1 for square s): rank 8 comes first in the board field and rank 1
\* holds the squares 0..7; the marker 1 is no piece.
TargetPieces(target_fen) ==
    LET ranks == Split(BoardField(target_fen), "/")
        squares == [k \in 1..8 |-> ExpandedRank(ranks[k])]
    IN  [j \in 1..64 |->
            LET c == squares[8 - ((j - 1) \div 8)][((j - 1) % 8) + 1]
            IN  IF c = "1" THEN NoPiece ELSE c]

\* C14: for a 32-byte buffer of mapped nibbles board_state_as_fen returns
\* eight ranks separated by '/', rank 8 first, each standing for exactly
\* eight squares in file order a to h with every run of empty squares as one
\* digit and the decoded piece on every occupied square; the empty buffer
\* gives 8/8/8/8/8/8/8/8 and the starting layout
\* rnbqkbnr/pppppppp/8/8/8/8/PPPPPPPP/RNBQKBNR.
C14_FenComposed ==
    (last_call.op = "board_state_as_fen" /\ ValidBuffer(last_call.board)) =>
        LET fen == last_call.result.value
            ranks == Split(fen, "/")
        IN  /\ last_call.result.outcome = "ok"
            /\ fen = ExpectedFen(last_call.board)
            /\ Len(ranks) = 8
            /\ \A k \in 1..Len(ranks) : Len(ExpandedRank(ranks[k])) = 8
            /\ last_call.board.bytes = Zeros => fen = EmptyFen
            /\ last_call.board.bytes = StartPosition => fen = StartFen

\* C14 witness: board_state_as_fen was called on the starting layout and
\* returned its board field.
C14_Witness ==
    /\ last_call.op = "board_state_as_fen"
    /\ last_call.board.bytes = StartPosition
    /\ last_call.result = [outcome |-> "ok", value |-> StartFen]
    /\ cur_fen = StartFen

\* C15: for a buffer of mapped nibbles, compare_board_state_to_fen called
\* with the string board_state_as_fen returns for the same buffer returns
\* the empty list.
C15_RoundTripEmpty ==
    (/\ last_call.op = "compare_board_state_to_fen"
     /\ ValidBuffer(last_call.board)
     /\ last_call.target_fen = board_state_as_fen(last_call.board.bytes).value) =>
        last_call.result = [outcome |-> "ok", value |-> << >>]

\* C15 witness: the board with the rook on a8, the pawn on h8 and the pawn
\* on e4 was compared with its own board field.
C15_Witness ==
    /\ last_call.op = "compare_board_state_to_fen"
    /\ PieceOn(last_call.board, 56) = "r"
    /\ PieceOn(last_call.board, 28) = "p"
    /\ last_call.target_fen = board_state_as_fen(last_call.board.bytes).value
    /\ last_call.result.value = << >>

C17_SquareNames ==
    last_call.op = "loc_to_pos" =>
        /\ Len(last_call.result) = 2
        /\ last_call.result[1] \in {"a", "b", "c", "d", "e", "f", "g", "h"}
        /\ last_call.result[2] \in {"1", "2", "3", "4", "5", "6", "7", "8"}
        /\ last_call.rev =>
               int(last_call.result[2]) =
                   9 - int(loc_to_pos(last_call.location, FALSE)[2])

\* C19 (as claimed): a nibble without a symbol stops neither the decoding
\* of the other squares nor the events of the other changed nibbles: the
\* generator yields every square whose nibble has a symbol, and a handler
\* that has ended has emitted one event for every differing nibble whose
\* looked-up code has a symbol.
C19_OtherNibblesStillHandled ==
    /\ (/\ last_call.op = "board_state_as_square_and_piece"
        /\ Len(last_call.board.bytes) = NBytes) =>
            \A p \in Positions :
                NibbleAt(last_call.board, p) \in 0..12 =>
                    \E k \in 1..Len(last_call.result.pairs) :
                        last_call.result.pairs[k] =
                            [square |-> 63 - p, piece |-> PieceOn(last_call.board, 63 - p)]
    /\ \A t \in TaskIds :
        (/\ Ended(t)
         /\ Len(tasks[t].od.bytes) = NBytes
         /\ Len(tasks[t].rdata.bytes) = NBytes) =>
            \A p \in Positions :
                (/\ Differs(tasks[t].od, tasks[t].rdata, p)
                 /\ LookedUp(tasks[t].od, tasks[t].rdata, p) \in 0..12) =>
                    EventCount(t, p) = 1

\* C18 (as claimed): with a timeout T > 0, every wait that board_has_changed
\* hands to blink_tick is at most the time left until the deadline at that
\* moment.
C18_WaitCappedByRemaining ==
    [][ (/\ poll'.pc = "writing"
         /\ tick' /= tick
         /\ poll'.timeout > 0)
        => BlinkSleep(poll'.sleep_time, poll'.timeout) <= poll'.end_time.t - now ]_vars

\* The number of times the initialization command has been written.
InitWrites == Cardinality({ k \in 1..Len(written) : written[k] = INITIALIZATION_CODE })

\* C16: run() writes the initialization command exactly once and before it
\* subscribes the handler, so the command is the first write and is written
\* when the first payload is handled; and once the handler has been
\* subscribed, it is unsubscribed only when the game loop has returned.
C16_InitThenSubscribeThenLoop ==
    /\ InitWrites <= 1
    /\ (session.subscribed \/ tasks /= << >>) =>
            (InitWrites = 1 /\ written[1] = INITIALIZATION_CODE)
    /\ session.pc \in {"initialized", "game_loop", "stopping", "stopped", "done", "failed"}
            => InitWrites = 1
    /\ (session.pc \notin {"not_started", "connected", "initialized"}
            /\ ~session.subscribed) => session.pc \in {"stopped", "done"}

\* C16 witness: run() has ended after a payload was handled and the game
\* loop wrote an LED command; the initialization command is the first of
\* the two writes and the handler is unsubscribed.
C16_Witness ==
    /\ session.pc = "done"
    /\ ~session.subscribed
    /\ tasks /= << >>
    /\ Len(written) = 2
    /\ written[1] = INITIALIZATION_CODE
    /\ written[2] /= INITIALIZATION_CODE

\* ------------------------------------------------- the raw-buffer pair
\* A step of one of the operations that only read the buffers.
ReaderStep ==
    \/ BlinkTickCall
    \/ \E timeout \in SessionTimeouts, sleep_time \in SessionSleepTimes :
          PollCall(timeout, sleep_time)
    \/ PollWriteDone
    \/ \E list_of_pos \in SessionRequests : ChangeLedsCall(list_of_pos)
    \/ \E list_of_frames \in Animations, sleep_time \in AnimSleepTimes :
          PlayAnimationCall(list_of_frames, sleep_time)
    \/ AnimWriteDone
    \/ AnimWake
    \/ FenCall
    \/ CompareCall(EmptyFen)

\* C21: only the payload-processing step writes the raw buffers.  Every step
\* that changes board_state or the baseline old_data is the handler taking
\* a payload, and every step of blink_tick, board_has_changed, change_leds,
\* play_animation, board_state_as_fen and compare_board_state_to_fen leaves
\* both unchanged.
C21_OnlyHandlerWritesBuffers ==
    [][ /\ (board_state' /= board_state \/ old_data' /= old_data)
            => \E data \in PollPayloads : Notify(data)
        /\ ReaderStep => UNCHANGED <<board_state, old_data>> ]_vars

\* A payload with a piece has been stored and, on that board, the notation
\* was composed, LED commands were written and an animation sleeps between
\* its frames.
C21_Witness ==
    /\ board_state.bytes /= Zeros
    /\ old_data.bytes /= Zeros
    /\ last_call.op = "board_state_as_fen"
    /\ last_call.board = board_state
    /\ Len(written) > 0
    /\ poll.result = "true"
    /\ anim.pc = "sleeping"

\* board_state and the baseline hold the same byte values.
BuffersAgree == board_state.bytes = old_data.bytes

\* C22: in every reachable state, also while an event callback is
\* suspended, board_state and the baseline old_data hold the same 32 byte
\* values.
C22_BuffersAgreeOn32Bytes ==
    /\ BuffersAgree
    /\ Len(board_state.bytes) = NBytes
    /\ Len(old_data.bytes) = NBytes

\* ------------------------------------------------- events and positions
\* The position the decoder yields for a buffer: the piece on every square.
DecodedPosition(buf) ==
    LET pairs == board_state_as_square_and_piece(buf.bytes).pairs
    IN  [s \in 0..63 |-> pairs[CHOOSE k \in 1..Len(pairs) : pairs[k].square = s].piece]

\* piece_up empties the square, piece_down puts the piece on the square.
ApplyEvent(position, e) ==
    [position EXCEPT ![e.square] = IF e.kind = "up" THEN NoPiece ELSE e.piece]

RECURSIVE Replay(_, _)
Replay(position, evs) ==
    IF evs = << >> THEN position
    ELSE Replay(ApplyEvent(position, Head(evs)), Tail(evs))

\* C23: for buffers of mapped nibbles, replaying the events of one payload,
\* in emission order, on the position decoded from the previous buffer
\* yields the position decoded from the new buffer.
C23_ReplayYieldsNewPosition ==
    \A t \in TaskIds :
        (/\ tasks[t].pc = "done"
         /\ ValidBuffer(tasks[t].od)
         /\ ValidBuffer(tasks[t].rdata))
        => Replay(DecodedPosition(tasks[t].od), EventsOf(t))
               = DecodedPosition(tasks[t].rdata)

\* A payload of mapped nibbles has been handled to its end against a
\* baseline with pieces: it emitted two events or more, and one of them put
\* a piece on a square that held another piece.
C23_Witness ==
    \E t \in TaskIds :
        /\ tasks[t].pc = "done"
        /\ ValidBuffer(tasks[t].od)
        /\ ValidBuffer(tasks[t].rdata)
        /\ Len(EventsOf(t)) >= 2
        /\ \E k \in 1..Len(EventsOf(t)) :
              /\ EventsOf(t)[k].kind = "down"
              /\ Occupied(tasks[t].od, EventsOf(t)[k].square)

\* ---------------------------------------------------- callbacks that raise
\* The callback of task t raised.
CallbackRaised(t) == tasks[t].pc = "callback_raised"

\* The events task t would still have to deliver: the differing nibbles
\* from the position where its handler stopped.
RemainingPositions(t) ==
    { p \in Positions : p >= tasks[t].pos /\ Differs(tasks[t].od, tasks[t].rdata, p) }

\* C24: when a piece_up or piece_down callback raises while a payload is
\* dispatched, the baseline and the change flag have already advanced to
\* that payload (the next payload is compared with it; while no further
\* payload has arrived, the baseline and the board are that payload and the
\* flag is set), the task has delivered one event per differing nibble up
\* to the raising one and none of the remaining ones, and a later payload
\* gets events only for nibbles in which it differs from its own baseline.
C24_RaisedCallbackLosesRemainingEvents ==
    \A t \in TaskIds :
        CallbackRaised(t) =>
            /\ IF t = Len(tasks)
               THEN old_data = tasks[t].rdata /\ board_state = tasks[t].rdata /\ board_changed
               ELSE tasks[t + 1].od = tasks[t].rdata
            /\ LET own == { k \in 1..Len(events) : events[k].task = t }
                   due == { p \in DiffPositions(tasks[t].od, tasks[t].rdata) :
                              p < tasks[t].pos }
               IN  /\ { 63 - events[k].square : k \in own } = due
                   /\ Cardinality(own) = Cardinality(due)
            /\ \A k \in 1..Len(events) :
                  LET u == events[k].task
                  IN  u > t => Differs(tasks[u].od, tasks[u].rdata, 63 - events[k].square)

\* The first payload's callback raised with an event left to deliver, and
\* the next payload, which changes another square and repeats that nibble,
\* has been handled to its end with an event of its own.
C24_Witness ==
    /\ Len(tasks) >= 2
    /\ CallbackRaised(1)
    /\ RemainingPositions(1) /= {}
    /\ tasks[2].pc = "done"
    /\ \E p \in Positions : EventCount(2, p) > 0
    /\ \A p \in RemainingPositions(1) : NibbleAt(tasks[2].rdata, p) = NibbleAt(tasks[1].rdata, p)

====
